---- MODULE Spec2Model ----
(***************************************************************************)
(* Model of src/src/clone-node.ts: the recursive, asynchronous cloneNode   *)
(* of html-to-image.  A live document is a finite map from node ids to     *)
(* node records; every invocation of cloneNode is one entry of `calls`,    *)
(* and the promise chain of an invocation advances one stage per action.   *)
(***************************************************************************)
EXTENDS Integers, Sequences, FiniteSets, TLC

\* ------------------------------------------------------------------ bounds
\* Largest number of cloneNode invocations one behaviour may start.
MaxCalls == 12
\* Largest number of nodes the caller's exclusion predicate rejects.
MaxRejected == 1
\* Largest number of extra runs of the symbol resolver on the finished clone.
MaxReruns == 1

\* ------------------------------------------------------- the live document
\* getAttribute(...) === null
NoAttr == "~none~"

El(tag, kids) ==
    [tag |-> tag, kids |-> kids, id |-> "", href |-> "", value |-> NoAttr,
     sel |-> FALSE, cur |-> "", hasSrc |-> FALSE, blank |-> FALSE,
     access |-> "none", body |-> 0, hasShadow |-> FALSE, shadow |-> <<>>,
     canAssign |-> FALSE, assigned |-> <<>>]

Text == El("#text", <<>>)
Use(ref) == [El("use", <<>>) EXCEPT !.href = ref]
Symbol(name, kids) == [El("symbol", kids) EXCEPT !.id = name]
Option(v, s) == [El("option", <<>>) EXCEPT !.value = v, !.sel = s]

\* <div><span>text</span><canvas/><p/></div>
DocOrder ==
    <<El("div", <<2, 4, 5>>), El("span", <<3>>), Text,
      El("canvas", <<>>), El("p", <<>>)>>

\* <select> with a markup-selected option, a plain one, and one in an optgroup
DocSelect(v) ==
    <<[El("select", <<2, 3, 4>>) EXCEPT !.cur = v],
      Option("a", TRUE), Option("b", FALSE),
      El("optgroup", <<5>>), Option("c", FALSE)>>

\* the scenario of the documentation: options a, b, c, none selected in markup
DocSelectPlain ==
    <<[El("select", <<2, 3, 4>>) EXCEPT !.cur = "b"],
      Option("a", FALSE), Option("b", FALSE), Option("c", FALSE)>>

\* <div><iframe/></div>, nested document <body><div><video poster/></div><p/></body>
DocIFrame ==
    <<El("div", <<2>>),
      [El("iframe", <<>>) EXCEPT !.access = "ok", !.body = 3],
      El("body", <<4, 6>>), El("div", <<5>>), El("video", <<>>), El("p", <<>>)>>

\* an iframe cloned on its own, nested document <body><p/></body>
DocIFrameOnly ==
    <<[El("iframe", <<>>) EXCEPT !.access = "ok", !.body = 2],
      El("body", <<3>>), El("p", <<>>)>>

\* an iframe whose nested document throws on access, and one without document
DocIFrameDenied ==
    <<El("div", <<2, 3>>),
      [El("iframe", <<>>) EXCEPT !.access = "throws"],
      [El("iframe", <<4>>) EXCEPT !.access = "null"],
      Text>>

\* two <use> of the same symbol and a <use> of a missing one; the symbol
\* lives outside the subtree that is cloned
DocSymbols ==
    <<El("body", <<2, 6>>), El("svg", <<3, 4, 5>>),
      Use("#a"), Use("#a"), Use("#m"), Symbol("a", <<>>)>>

\* an empty reference, a reference the cloned subtree defines itself, and
\* one it does not
DocPresent ==
    <<El("body", <<2, 7>>), El("svg", <<3, 4, 5, 6>>),
      Use(""), Use("#p"), Symbol("p", <<>>), Use("#b"), Symbol("b", <<>>)>>

\* a symbol whose content references another symbol
DocNested ==
    <<El("body", <<2, 4, 6>>), El("svg", <<3>>), Use("#b"),
      Symbol("b", <<5>>), Use("#a"), Symbol("a", <<>>)>>

\* a symbol that references itself
DocSelfRef ==
    <<El("svg", <<2, 3>>), Use("#a"), Symbol("a", <<4>>), Use("#a")>>

\* two symbols that reference each other
DocMutual ==
    <<El("body", <<2, 4, 6>>), El("svg", <<3>>), Use("#a"),
      Symbol("a", <<5>>), Use("#b"), Symbol("b", <<7>>), Use("#a")>>

\* a shadow host whose slot projects the host's light child
DocShadow ==
    <<[El("div", <<3>>) EXCEPT !.hasShadow = TRUE, !.shadow = <<2>>],
      [El("slot", <<>>) EXCEPT !.canAssign = TRUE, !.assigned = <<3>>],
      El("span", <<>>)>>

\* a playing video with a <source> child, a blank canvas, form controls
DocMedia ==
    <<El("div", <<2, 4, 5, 6>>),
      [El("video", <<3>>) EXCEPT !.hasSrc = TRUE], El("source", <<>>),
      [El("canvas", <<>>) EXCEPT !.blank = TRUE],
      [El("input", <<>>) EXCEPT !.cur = "x", !.value = "old"],
      [El("textarea", <<>>) EXCEPT !.cur = "t"]>>

\* a video without current source directly in the document, next to a <use>
\* whose definition holds another such video
DocPoster ==
    <<El("div", <<2, 3, 4>>), El("video", <<>>), Use("#v"),
      Symbol("v", <<5>>), El("video", <<>>)>>

\* a <use> whose reference selects a painted canvas
DocCanvasDef ==
    <<El("body", <<2, 5>>), El("svg", <<3, 4>>), Use("#c"), Use("#m"),
      [El("canvas", <<>>) EXCEPT !.id = "c"]>>

Docs ==
    <<DocOrder, DocSelect("b"), DocSelect("c"), DocSelectPlain, DocIFrame,
      DocIFrameDenied, DocSymbols, DocPresent, DocNested, DocSelfRef, DocMutual,
      DocShadow, DocMedia, DocPoster, DocCanvasDef, DocIFrameOnly>>

\* the nodes cloneNode is started on, per document
Roots ==
    <<{1}, {1}, {1}, {1}, {1}, {1}, {2}, {2}, {2}, {1}, {2}, {1}, {1}, {1}, {2}, {1}>>

VARIABLES doc, root, hasFilter, rejected, calls, finished
vars == <<doc, root, hasFilter, rejected, calls, finished>>
\* what the caller passes in; no step of the clone changes it
input == <<doc, root, hasFilter, rejected>>

D == Docs[doc]
Nodes == DOMAIN D

\* --------------------------------------------------------------- clone trees
\* A clone is a detached tree; `src` remembers the source node it was made
\* from (0 for nodes the resolver or innerHTML synthesizes), `deco` the
\* transfers applied to it, in order.
NoClone ==
    [src |-> -1, tag |-> "", id |-> "", href |-> "", value |-> NoAttr,
     sel |-> FALSE, kids |-> <<>>, deco |-> <<>>]

Made(tag, kids) == [NoClone EXCEPT !.src = 0, !.tag = tag, !.kids = kids]

\* node.cloneNode(false): tag and attributes, no children, no style
Shallow(n) ==
    [src |-> n, tag |-> D[n].tag, id |-> D[n].id, href |-> D[n].href,
     value |-> D[n].value, sel |-> D[n].sel, kids |-> <<>>, deco |-> <<>>]

\* createImage(dataURL): a fresh <img>, none of the source's attributes
createImage(n) == [NoClone EXCEPT !.src = n, !.tag = "img"]

cloneCanvasElement(n) == IF D[n].blank THEN Shallow(n) ELSE createImage(n)

RECURSIVE Pre(_), PreAll(_)
Pre(t) == <<t>> \o PreAll(t.kids)
PreAll(ts) == IF ts = <<>> THEN <<>> ELSE Pre(Head(ts)) \o PreAll(Tail(ts))

\* the descendants of a clone, in document order (the clone itself excluded)
Descendants(t) == PreAll(t.kids)

IsUse(t) == t.tag = "use"
\* clone.querySelectorAll ? clone.querySelectorAll('use') : []
querySelectorAllUse(t) ==
    IF t.tag = "#text" THEN <<>> ELSE SelectSeq(Descendants(t), IsUse)

\* the selector '#name' matches an element whose id attribute is name
Matches(sel, ident) == ident # "" /\ sel = "#" \o ident

\* clone.querySelector(id) is not null
cloneHas(t, sel) ==
    \E k \in DOMAIN Descendants(t) : Matches(sel, Descendants(t)[k].id)

RECURSIVE DocPre(_), DocPreAll(_)
DocPre(n) == <<n>> \o DocPreAll(D[n].kids)
DocPreAll(ns) == IF ns = <<>> THEN <<>> ELSE DocPre(Head(ns)) \o DocPreAll(Tail(ns))

\* document.querySelector(id): first match in the main document, 0 for null
documentQuery(sel) ==
    LET all == DocPre(1)
        hit == {k \in DOMAIN all : Matches(sel, D[all[k]].id)}
    IN  IF hit = {} THEN 0
        ELSE all[CHOOSE k \in hit : \A j \in hit : k <= j]

\* ------------------------------------------------------------ decoration
Mark(cl, what) == [cl EXCEPT !.deco = Append(@, what)]

\* the computed style of the source becomes the inline style of the clone
cloneCSSStyle(n, cl) == Mark(cl, "style")

\* external collaborator, called between style and form-state transfer
clonePseudoElements(n, cl) == Mark(cl, "pseudo")

cloneInputValue(n, cl) ==
    LET a == IF D[n].tag = "textarea"
             THEN [cl EXCEPT !.kids =
                      IF D[n].cur = "" THEN <<>> ELSE <<Made("#text", <<>>)>>]
             ELSE cl
        b == IF D[n].tag = "input" THEN [a EXCEPT !.value = D[n].cur] ELSE a
    IN  Mark(b, "input")

\* Array.from(clonedSelect.children).find(child => value === child.getAttribute('value'))
FindOption(cl, v) ==
    LET hit == {k \in DOMAIN cl.kids :
                    cl.kids[k].tag # "#text" /\ cl.kids[k].value = v}
    IN  IF hit = {} THEN 0 ELSE CHOOSE k \in hit : \A j \in hit : k <= j

cloneSelectValue(n, cl) ==
    LET k == FindOption(cl, D[n].cur)
    IN  Mark(IF D[n].tag = "select" /\ k # 0
             THEN [cl EXCEPT !.kids[k].sel = TRUE] ELSE cl,
             "select")

decorate(n, cl) ==
    IF cl.tag = "#text" THEN cl
    ELSE cloneSelectValue(n,
            cloneInputValue(n, clonePseudoElements(n, cloneCSSStyle(n, cl))))

\* ---------------------------------------------------------- cloneChildren
\* the child list cloneChildren resolves (lines 75-88)
ResolvedChildren(n) ==
    IF D[n].tag = "slot" /\ D[n].canAssign THEN D[n].assigned
    ELSE IF D[n].tag = "iframe" /\ D[n].access = "ok" /\ D[n].body # 0
         THEN D[D[n].body].kids
    ELSE IF D[n].hasShadow THEN D[n].shadow
    ELSE D[n].kids

\* ------------------------------------------------------- the symbol table
DefKeys(defs) == {defs[k].key : k \in DOMAIN defs}

\* processedDefs[id] = clone: a new key goes last, an old key keeps its place
SetDef(defs, key, cl) ==
    IF key \in DefKeys(defs)
    THEN [k \in DOMAIN defs |->
            IF defs[k].key = key THEN [key |-> key, val |-> cl] ELSE defs[k]]
    ELSE Append(defs, [key |-> key, val |-> cl])

\* Object.values(processedDefs)
DefValues(defs) == [k \in DOMAIN defs |-> defs[k].val]

\* the test without `!exist`
NeedsClone_ignoresClone(cl, sel, defs) ==
    /\ sel # ""
    /\ documentQuery(sel) # 0
    /\ sel \notin DefKeys(defs)

\* the test without `!processedDefs[id]`
NeedsClone_ignoresTable(cl, sel, defs) ==
    /\ sel # ""
    /\ ~cloneHas(cl, sel)
    /\ documentQuery(sel) # 0

\* the test of lines 207-210 for one <use>
NeedsClone(cl, sel, defs) ==
    /\ sel # ""
    /\ ~cloneHas(cl, sel)
    /\ documentQuery(sel) # 0
    /\ sel \notin DefKeys(defs)

\* the loop of lines 204-215 runs without suspension up to the next <use>
\* whose definition has to be cloned; Len(uses) + 1 when none is left
RECURSIVE NextUse(_, _, _, _)
NextUse(cl, uses, i, defs) ==
    IF i > Len(uses) THEN i
    ELSE IF NeedsClone(cl, uses[i], defs) THEN i
    ELSE NextUse(cl, uses, i + 1, defs)

\* lines 217-236: one hidden <svg><defs>...</defs></svg>, only when needed
AppendAux(cl, defs) ==
    IF Len(DefValues(defs)) = 0 THEN cl
    ELSE [cl EXCEPT !.kids =
            Append(@, Made("svg", <<Made("defs", DefValues(defs))>>))]

\* ------------------------------------------------------------- invocations
\* line 246: the exclusion predicate applies to non-root calls only; the
\* empty options object of line 37 carries no predicate
Rejects(n, opt, isRoot) ==
    ~isRoot /\ (opt = "opts" /\ hasFilter) /\ n \in rejected

\* One invocation of cloneNode(node, options, isRoot).  parent/via/slot say
\* who awaits it; pc is the stage of its promise chain; log lists the stages
\* it has been through.
NewCall(n, opt, isRoot, parent, via, slot) ==
    [node |-> n, opt |-> opt, isRoot |-> isRoot, parent |-> parent,
     via |-> via, slot |-> slot,
     pc |-> IF Rejects(n, opt, isRoot) THEN "null" ELSE "single",
     err |-> "none", clone |-> NoClone, log |-> <<>>, kidCalls |-> <<>>,
     sub |-> 0, uses |-> <<>>, i |-> 0, defs |-> <<>>, pre |-> NoClone,
     cloned |-> <<>>]

\* the chain with decoration ahead of the children
Then_decorateFirst(stage) ==
    CASE stage = "single" -> "decorate"
      [] stage = "decorate" -> "children"
      [] stage = "children" -> "symbols"

\* lines 250-253: shallow clone, then children, then decoration and symbols
Then(stage) ==
    CASE stage = "single" -> "children"
      [] stage = "children" -> "decorate"
      [] stage = "decorate" -> "symbols"

\* the invocations in qs have their result from now on
Settle(qs) == finished' = finished \o qs /\ UNCHANGED input

Fail(c, why) ==
    /\ calls' = [calls EXCEPT ![c].pc = "failed", ![c].err = why]
    /\ Settle(<<c>>)

HasBody(n) == D[n].tag = "iframe" /\ D[n].access = "ok" /\ D[n].body # 0

\* ---------------------------------------------------------------- actions
Init ==
    /\ doc \in DOMAIN Docs
    /\ root \in Roots[doc]
    /\ hasFilter \in BOOLEAN
    /\ rejected \in {S \in SUBSET (DOMAIN Docs[doc]) :
                        /\ Cardinality(S) <= MaxRejected
                        /\ (~hasFilter => S = {})}
    /\ calls = <<NewCall(root, "opts", TRUE, 0, "top", 0)>>
    /\ finished = <<>>

\* cloneSingleNode, the cases that do not wait for anything else
CloneSingleNode(c) ==
    LET n == calls[c].node
        cl == IF D[n].tag = "canvas" THEN cloneCanvasElement(n)
              ELSE IF D[n].tag = "video" THEN createImage(n)
              ELSE Shallow(n)
    IN  /\ calls[c].pc = "single"
        /\ ~(D[n].tag = "video" /\ ~D[n].hasSrc)
        /\ ~HasBody(n)
        /\ calls' = [calls EXCEPT ![c].pc = Then("single"), ![c].clone = cl,
                                  ![c].log = Append(@, "single")]
        /\ UNCHANGED <<finished, input>>

\* cloneVideoElement without current source: await resourceToDataURL(poster)
CloneVideoPoster(c) ==
    LET n == calls[c].node
    IN  /\ calls[c].pc = "single"
        /\ D[n].tag = "video" /\ ~D[n].hasSrc
        /\ calls' = [calls EXCEPT ![c].pc = "poster"]
        /\ UNCHANGED <<finished, input>>

PosterResolved(c) ==
    /\ calls[c].pc = "poster"
    /\ calls' = [calls EXCEPT ![c].pc = Then("single"),
                              ![c].clone = createImage(calls[c].node),
                              ![c].log = Append(@, "single")]
    /\ UNCHANGED <<finished, input>>

PosterRejected(c) ==
    /\ calls[c].pc = "poster"
    /\ Fail(c, "poster")

\* cloneIFrameElement with a nested body: await cloneNode(body, {}, true)
CloneIFrameBody(c) ==
    LET n == calls[c].node
    IN  /\ calls[c].pc = "single"
        /\ HasBody(n)
        /\ Len(calls) < MaxCalls
        /\ calls' = Append([calls EXCEPT ![c].pc = "iframe",
                                         ![c].sub = Len(calls) + 1],
                           NewCall(D[n].body, "empty", TRUE, c, "iframe", 0))
        /\ UNCHANGED <<finished, input>>

IFrameBodyCloned(c) ==
    /\ calls[c].pc = "iframe"
    /\ calls[calls[c].sub].pc = "done"
    /\ calls' = [calls EXCEPT ![c].pc = Then("single"),
                              ![c].clone = calls[calls[c].sub].clone,
                              ![c].log = Append(@, "single")]
    /\ UNCHANGED <<finished, input>>

\* the catch of lines 41-43 swallows whatever the nested clone failed with
IFrameBodyFailed(c) ==
    /\ calls[c].pc = "iframe"
    /\ calls[calls[c].sub].pc = "failed"
    /\ calls' = [calls EXCEPT ![c].pc = Then("single"),
                              ![c].clone = Shallow(calls[c].node),
                              ![c].log = Append(@, "single")]
    /\ UNCHANGED <<finished, input>>

\* cloneChildren: line 81 reads contentDocument outside any try block
CloneChildrenDenied(c) ==
    LET n == calls[c].node
    IN  /\ calls[c].pc = "children"
        /\ D[n].tag = "iframe" /\ D[n].access = "throws"
        /\ Fail(c, "access")

\* cloneChildren up to the fan-out of line 98; the calls start at once and
\* those the predicate rejects have their result (null) immediately
CloneChildren(c) ==
    LET n == calls[c].node
        kids == ResolvedChildren(n)
        ids == [k \in DOMAIN kids |-> Len(calls) + k]
        new == [k \in DOMAIN kids |->
                    NewCall(kids[k], calls[c].opt, FALSE, c, "child", k)]
        isNull(k) == new[k - Len(calls)].pc = "null"
    IN  /\ calls[c].pc = "children"
        /\ ~(D[n].tag = "iframe" /\ D[n].access = "throws")
        /\ IF Len(kids) = 0 \/ D[n].tag = "video"
           THEN /\ calls' = [calls EXCEPT ![c].pc = Then("children"),
                                          ![c].log = Append(@, "children")]
                /\ UNCHANGED <<finished, input>>
           ELSE /\ Len(calls) + Len(kids) <= MaxCalls
                /\ calls' = [calls EXCEPT ![c].pc = "join",
                                          ![c].kidCalls = ids] \o new
                /\ Settle(SelectSeq(ids, isNull))

IsKidOf(c, k) == \E j \in DOMAIN calls[c].kidCalls : calls[c].kidCalls[j] = k

\* the children's results taken in the order in which their calls finished
AppendOrder_completion(c) ==
    LET mine(k) == IsKidOf(c, k) IN SelectSeq(finished, mine)

\* the order in which the loop of lines 101-105 visits the children's
\* results: the order of the array Promise.all resolves with
AppendOrder(c) == calls[c].kidCalls

\* the non-null results, in that order
Appended(c) ==
    LET isClone(k) == calls[k].pc = "done"
        some == SelectSeq(AppendOrder(c), isClone)
    IN  [j \in DOMAIN some |-> calls[some[j]].clone]

\* Promise.all resolved: lines 101-107
JoinChildren(c) ==
    /\ calls[c].pc = "join"
    /\ \A j \in DOMAIN calls[c].kidCalls :
            calls[calls[c].kidCalls[j]].pc \in {"done", "null"}
    /\ calls' = [calls EXCEPT ![c].pc = Then("children"),
                              ![c].clone.kids = @ \o Appended(c),
                              ![c].log = Append(@, "children")]
    /\ UNCHANGED <<finished, input>>

\* Promise.all rejects as soon as one child is rejected
JoinFailed(c) ==
    /\ calls[c].pc = "join"
    /\ \E j \in DOMAIN calls[c].kidCalls :
            calls[calls[c].kidCalls[j]].pc = "failed"
    /\ Fail(c, "child")

Decorate(c) ==
    LET old == calls[c].clone
        new == decorate(calls[c].node, old)
    IN  /\ calls[c].pc = "decorate"
        /\ calls' = [calls EXCEPT
                ![c].pc = Then("decorate"),
                ![c].clone = new,
                ![c].log = @ \o SubSeq(new.deco, Len(old.deco) + 1, Len(new.deco))]
        /\ UNCHANGED <<finished, input>>

\* ensureSVGSymbols from its loop index i on, for the invocation record me:
\* either the next definition is cloned (line 212) or lines 217-238 finish
SymbolLoop(c, me, i) ==
    LET j == NextUse(me.clone, me.uses, i, me.defs)
    IN  IF j <= Len(me.uses)
        THEN /\ Len(calls) < MaxCalls
             /\ calls' = Append(
                    [calls EXCEPT ![c] =
                        [me EXCEPT !.pc = "symwait", !.i = j,
                                   !.sub = Len(calls) + 1,
                                   !.cloned = Append(@, me.uses[j])]],
                    NewCall(documentQuery(me.uses[j]), me.opt, TRUE, c, "symbol", 0))
             /\ UNCHANGED <<finished, input>>
        ELSE /\ calls' = [calls EXCEPT ![c] =
                        [me EXCEPT !.pc = "done", !.i = j,
                                   !.clone = AppendAux(me.clone, me.defs)]]
             /\ Settle(<<c>>)

UseRefs(cl) ==
    LET us == querySelectorAllUse(cl) IN [k \in DOMAIN us |-> us[k].href]

EnsureSVGSymbols(c) ==
    LET me == [calls[c] EXCEPT !.uses = UseRefs(calls[c].clone),
                               !.defs = <<>>, !.cloned = <<>>,
                               !.pre = calls[c].clone,
                               !.log = Append(@, "symbols")]
    IN  /\ calls[c].pc = "symbols"
        /\ IF Len(me.uses) = 0
           THEN /\ calls' = [calls EXCEPT ![c] = [me EXCEPT !.pc = "done"]]
                /\ Settle(<<c>>)
           ELSE SymbolLoop(c, me, 1)

\* line 212 resumes: the definition's clone enters the table
SymbolCloned(c) ==
    LET me == calls[c]
        got == [me EXCEPT !.defs = SetDef(@, me.uses[me.i], calls[me.sub].clone)]
    IN  /\ me.pc = "symwait"
        /\ calls[me.sub].pc = "done"
        /\ SymbolLoop(c, got, me.i + 1)

SymbolFailed(c) ==
    /\ calls[c].pc = "symwait"
    /\ calls[calls[c].sub].pc = "failed"
    /\ Fail(c, "child")

\* the resolver applied once more to the clone the last run returned
Reruns == {k \in DOMAIN calls : calls[k].via = "rerun"}
LastRun == IF Reruns = {} THEN 1 ELSE CHOOSE k \in Reruns : \A j \in Reruns : j <= k

RunResolverAgain ==
    /\ calls[LastRun].pc = "done"
    /\ Cardinality(Reruns) < MaxReruns
    /\ Len(calls) < MaxCalls
    /\ calls' = Append(calls,
            [NewCall(root, "opts", TRUE, 0, "rerun", 0) EXCEPT
                !.pc = "symbols", !.clone = calls[LastRun].clone])
    /\ UNCHANGED <<finished, input>>

Next ==
    \/ \E c \in DOMAIN calls : CloneSingleNode(c)
    \/ \E c \in DOMAIN calls : CloneVideoPoster(c)
    \/ \E c \in DOMAIN calls : PosterResolved(c)
    \/ \E c \in DOMAIN calls : PosterRejected(c)
    \/ \E c \in DOMAIN calls : CloneIFrameBody(c)
    \/ \E c \in DOMAIN calls : IFrameBodyCloned(c)
    \/ \E c \in DOMAIN calls : IFrameBodyFailed(c)
    \/ \E c \in DOMAIN calls : CloneChildrenDenied(c)
    \/ \E c \in DOMAIN calls : CloneChildren(c)
    \/ \E c \in DOMAIN calls : JoinChildren(c)
    \/ \E c \in DOMAIN calls : JoinFailed(c)
    \/ \E c \in DOMAIN calls : Decorate(c)
    \/ \E c \in DOMAIN calls : EnsureSVGSymbols(c)
    \/ \E c \in DOMAIN calls : SymbolCloned(c)
    \/ \E c \in DOMAIN calls : SymbolFailed(c)
    \/ RunResolverAgain

Spec == Init /\ [][Next]_vars

\* ------------------------------------------------------------- properties
Top == calls[1]

\* the source node a clone stands for: the clone of a nested body stands for
\* its iframe
Origin(t) ==
    IF \E f \in Nodes : D[f].tag = "iframe" /\ D[f].body = t.src
    THEN CHOOSE f \in Nodes : D[f].tag = "iframe" /\ D[f].body = t.src
    ELSE t.src

Srcs(t) == {Pre(t)[k].src : k \in DOMAIN Pre(t)}
Subtree(n) == {DocPre(n)[k] : k \in DOMAIN DocPre(n)}
Last(q) == q[Len(q)]
Has(q, x) == \E k \in DOMAIN q : q[k] = x
Before(q, x, y) == \E i, j \in DOMAIN q : i < j /\ q[i] = x /\ q[j] = y

\* C1: once the top-level call has returned under an exclusion predicate, the
\* clone tree holds no clone of a rejected node (other than the root and the
\* nodes the root lies below), nor of any descendant of one.
C1_RejectedAbsent ==
    (Top.pc = "done" /\ hasFilter) =>
        \A n \in rejected :
            root \notin Subtree(n) =>
                \A m \in Subtree(n) : m \notin Srcs(Top.clone)

\* C2: when cloneChildren has appended the children's clones, the appended
\* clones stand, in order, for exactly the resolved children the predicate
\* accepts, whatever the order in which the children's calls finished.
C2_ChildOrder ==
    \A c \in DOMAIN calls :
        (calls[c].kidCalls # <<>> /\ calls[c].log # <<>>
            /\ Last(calls[c].log) = "children") =>
        LET accepted(m) == ~Rejects(m, calls[c].opt, FALSE)
            kept == SelectSeq(ResolvedChildren(calls[c].node), accepted)
            got == calls[c].clone.kids
            base == Len(got) - Len(kept)
        IN  /\ base >= 0
            /\ \A j \in DOMAIN kept : Origin(got[base + j]) = kept[j]

\* a parent has joined two clones whose calls finished in the opposite
\* order, next to a child the predicate rejected
C2_Witness ==
    \E c \in DOMAIN calls :
        /\ calls[c].log # <<>> /\ Last(calls[c].log) = "children"
        /\ \E i, j, z \in DOMAIN calls[c].kidCalls :
            /\ i < j
            /\ calls[calls[c].kidCalls[i]].pc = "done"
            /\ calls[calls[c].kidCalls[j]].pc = "done"
            /\ Before(finished, calls[c].kidCalls[j], calls[c].kidCalls[i])
            /\ calls[calls[c].kidCalls[z]].pc = "null"

Denied(n) == D[n].tag = "iframe" /\ D[n].access = "throws"

\* C3: cloning an iframe whose nested document throws on access never fails,
\* and the clone it returns is a childless iframe element.
C3_DeniedIFrameDegrades ==
    \A c \in DOMAIN calls :
        Denied(calls[c].node) =>
            /\ calls[c].pc # "failed"
            /\ calls[c].pc = "done" =>
                    calls[c].clone.tag = "iframe" /\ calls[c].clone.kids = <<>>

\* C4: once the poster conversion has failed for a video the predicate does
\* not reject, the top-level call does not return a clone tree.
C4_PosterFailureSurfaces ==
    (\E c \in DOMAIN calls :
        calls[c].err = "poster" /\ calls[c].node \notin rejected)
    => Top.pc # "done"

RECURSIVE Enclosing(_)
\* the invocations an invocation is nested in
Enclosing(c) ==
    IF calls[c].parent = 0 THEN {}
    ELSE {calls[c].parent} \cup Enclosing(calls[c].parent)

SameArguments(a, c) ==
    /\ calls[a].node = calls[c].node
    /\ calls[a].opt = calls[c].opt
    /\ calls[a].isRoot = calls[c].isRoot

\* C5: every started cloneNode call finishes.  The document is finite and
\* read-only, so the recursion ends exactly when no invocation is nested
\* inside an invocation with the same arguments.
C5_RecursionEnds ==
    \A c \in DOMAIN calls : \A a \in Enclosing(c) : ~SameArguments(a, c)

\* C6: the finished stand-in of an iframe with an accessible body has exactly
\* one child per body child the predicate accepts, in the body's order.
C6_IFrameChildrenOnce ==
    \A c \in DOMAIN calls :
        (calls[c].pc = "done" /\ HasBody(calls[c].node)) =>
        LET accepted(m) == ~Rejects(m, calls[c].opt, FALSE)
            kept == SelectSeq(D[D[calls[c].node].body].kids, accepted)
            got == calls[c].clone.kids
        IN  /\ Len(got) = Len(kept)
            /\ \A j \in DOMAIN kept : Origin(got[j]) = kept[j]

IsOption(t) == t.tag = "option"
\* C8: in the finished clone of a select with current value v, the option
\* whose value attribute is v is the only one that carries `selected`; when
\* no cloned option has that value, every option keeps its markup state.
C8_SelectValue ==
    \A c \in DOMAIN calls :
        (calls[c].pc = "done" /\ D[calls[c].node].tag = "select") =>
        LET os == SelectSeq(Descendants(calls[c].clone), IsOption)
            v == D[calls[c].node].cur
        IN  IF \E k \in DOMAIN os : os[k].value = v
            THEN \A k \in DOMAIN os : os[k].sel <=> (os[k].value = v)
            ELSE \A k \in DOMAIN os : os[k].sel = D[os[k].src].sel

\* a reference the resolver has to fetch: not empty, defined in the live
\* document, and not yet defined inside the clone
Wanted(cl, sel) == sel # "" /\ documentQuery(sel) # 0 /\ ~cloneHas(cl, sel)

\* C7: a second run of the resolver on a clone the first run has resolved
\* clones no definition whose identifier the clone already holds, and when
\* the clone holds every definition its <use> elements can get, the second
\* run returns it unchanged (no further container).
C7_ResolverIdempotent ==
    \A r \in Reruns :
        LET me == calls[r]
        IN  /\ \A k \in DOMAIN me.cloned : ~cloneHas(me.pre, me.cloned[k])
            /\ (me.pc = "done" /\ \A k \in DOMAIN me.uses : ~Wanted(me.pre, me.uses[k]))
                    => me.clone = me.pre

\* the first run fetched a definition, the second run has finished and
\* found it in place
C7_Witness ==
    \E r \in Reruns :
        /\ calls[r].pc = "done"
        /\ Top.cloned # <<>>
        /\ \A k \in DOMAIN Top.cloned : cloneHas(Top.clone, Top.cloned[k])
        /\ calls[r].pre = Top.clone
        /\ calls[r].clone = Top.clone

\* C9: one run of the resolver clones each reference at most once, and only
\* references that are non-empty, defined in the live document and not
\* defined in the clone; when it ends, the clone has gained one container
\* holding exactly the definitions collected, or nothing if none was.
C9_OneCloneOneContainer ==
    \A c \in DOMAIN calls :
        calls[c].pc \in {"symwait", "done"} =>
        LET me == calls[c]
            refs == me.cloned
            n0 == Len(me.pre.kids)
        IN  /\ \A i, j \in DOMAIN refs : i # j => refs[i] # refs[j]
            /\ \A k \in DOMAIN refs : Wanted(me.pre, refs[k])
            /\ me.pc = "done" =>
                /\ {refs[k] : k \in DOMAIN refs} =
                        {me.uses[k] : k \in {j \in DOMAIN me.uses : Wanted(me.pre, me.uses[j])}}
                /\ IF refs = <<>> THEN me.clone = me.pre
                   ELSE /\ Len(me.clone.kids) = n0 + 1
                        /\ SubSeq(me.clone.kids, 1, n0) = me.pre.kids
                        /\ LET aux == me.clone.kids[n0 + 1]
                           IN  /\ aux.tag = "svg" /\ aux.src = 0
                               /\ Len(aux.kids) = 1
                               /\ aux.kids[1].tag = "defs"
                               /\ Len(aux.kids[1].kids) = Len(refs)
                               /\ \A k \in DOMAIN refs :
                                    Origin(aux.kids[1].kids[k]) = documentQuery(refs[k])

\* a finished run over a clone in which two <use> name the same symbol and
\* a third names a missing one; the symbol was fetched
C9_Witness ==
    \E c \in DOMAIN calls :
        /\ calls[c].pc = "done"
        /\ \E i, j, m \in DOMAIN calls[c].uses :
            /\ i # j
            /\ calls[c].uses[i] = calls[c].uses[j]
            /\ Has(calls[c].cloned, calls[c].uses[i])
            /\ calls[c].uses[m] # "" /\ documentQuery(calls[c].uses[m]) = 0
        /\ Len(calls[c].clone.kids) = Len(calls[c].pre.kids) + 1

Stages == <<"single", "children", "style", "pseudo", "input", "select", "symbols">>
IsPrefix(p, q) == Len(p) <= Len(q) /\ SubSeq(q, 1, Len(p)) = p
KidsOf(c) == {calls[c].kidCalls[j] : j \in DOMAIN calls[c].kidCalls}

\* C10: an invocation goes through shallow clone, children, style, pseudo
\* elements, form state and symbols in that order (a text node has nothing
\* to decorate); a parent is decorated only when each child's call has
\* returned, fully decorated and resolved, and its clone is appended; a
\* parent with a failed child is never decorated and returns nothing.
C10_StageOrder ==
    \A c \in DOMAIN calls :
        calls[c].via # "rerun" =>
        LET me == calls[c]
        IN  /\ \/ IsPrefix(me.log, Stages)
               \/ /\ D[me.node].tag = "#text"
                  /\ IsPrefix(me.log, <<"single", "children", "symbols">>)
            /\ me.pc = "done" => Has(me.log, "symbols")
            /\ (me.pc = "decorate" \/ Has(me.log, "style")) =>
                    \A k \in KidsOf(c) :
                        /\ calls[k].pc \in {"done", "null"}
                        /\ calls[k].pc = "done" =>
                            /\ Has(calls[k].log, "symbols")
                            /\ D[calls[k].node].tag # "#text" =>
                                    Has(calls[k].log, "select")
            /\ me.pc = "decorate" =>
                    \A k \in KidsOf(c) :
                        calls[k].pc = "done" => Has(me.clone.kids, calls[k].clone)
            /\ (\E k \in KidsOf(c) : calls[k].pc = "failed") =>
                    /\ me.pc \in {"join", "failed"}
                    /\ ~Has(me.log, "style")

\* a parent of two children has gone through every stage
C10_Witness ==
    \E c \in DOMAIN calls :
        /\ calls[c].pc = "done"
        /\ calls[c].log = Stages
        /\ Cardinality({k \in KidsOf(c) : calls[k].pc = "done"}) >= 2

====
